---- MODULE Spec2Model ----
(***************************************************************************)
(* Model of parallel_llm/core.py: ParallelLLM.parse.  One invocation fans  *)
(* the same request out to num_processors executors                         *)
(* (_make_single_request: bounded retries, exponential backoff), joins     *)
(* them with asyncio.gather, lets a decision-maker call pick the final     *)
(* response (_make_decision) and validates it (_parse_internal step 3).    *)
(***************************************************************************)
EXTENDS Integers, Sequences, FiniteSets, TLC

\* ---- bounds of the model ------------------------------------------------
MaxProcessors == 2
MaxRetries == 2

\* ---- executors ----------------------------------------------------------
\* The decision-maker call runs the same _make_single_request as the
\* processors; it is executor 0, processor_<i-1> of the source is executor i.
DM == 0
Procs == 1..MaxProcessors
Executors == {DM} \cup Procs

\* The four except clauses of _make_single_request.
ErrorKinds == {"Timeout", "RateLimit", "APIError", "Other"}

\* What the caller passed to parse; "ok" passes the checks of step 0.
RequestKinds == {"ok", "no_model", "no_messages", "no_format", "not_basemodel"}

\* ---- values -------------------------------------------------------------
\* A value is an object: cls is its class, id its identity, reasoning tells
\* whether it carries the added reasoning field.  The object parsed from
\* the response to executor i has identity i; the program never looks at
\* its content.  None is the one object of its class; an object built by
\* model_validate is a new one.
NoId == 0 - 1
Rebuilt == 0 - 2
NoneValue == [cls |-> "NoneType", id |-> NoId, reasoning |-> FALSE]
Unset == [cls |-> "unset", id |-> NoId, reasoning |-> FALSE]

\* class ReasoningFormat(original_format): the original plus `reasoning`.
_create_reasoning_format(original_format) ==
    IF original_format = "Orig" THEN "WithReasoning" ELSE original_format

Instance(fmt, id) ==
    [cls |-> fmt, id |-> id, reasoning |-> (fmt = "WithReasoning")]

\* completion.choices[0].message.parsed for the call of executor i with
\* response_format fmt: an instance of fmt, or None when the model refused
ParsedValues(fmt, i) == {Instance(fmt, i), NoneValue}

\* issubclass(ReasoningFormat, original_format) holds: it is a subclass.
IsSubclass(c, fmt) ==
    \/ c = fmt
    \/ c = "WithReasoning" /\ fmt = "Orig"

\* isinstance(v, fmt)
IsInstance(v, fmt) == IsSubclass(v.cls, fmt)

\* hasattr(v, 'model_dump'): pydantic models have it, None has not
HasModelDump(v) == v.cls \in {"Orig", "WithReasoning"}

\* v.model_dump(): the dict of the fields
ModelDump(v) == [cls |-> "dict", id |-> Rebuilt, reasoning |-> v.reasoning]

\* response_format.model_validate(x): a dict with the fields validates
\* (extra keys are ignored), anything else raises.
ModelValidate(x) ==
    IF x.cls = "dict"
    THEN [ok |-> TRUE, value |-> Instance("Orig", Rebuilt)]
    ELSE [ok |-> FALSE, value |-> Unset]

\* ---- outcome of parse ---------------------------------------------------
Pending == [kind |-> "pending", value |-> Unset, error |-> "none", failed |-> 0]
Returned(v) == [kind |-> "value", value |-> v, error |-> "none", failed |-> 0]
Raised(e, n) == [kind |-> "error", value |-> Unset, error |-> e, failed |-> n]

\* mutant: the final response is always rebuilt from its dump
ValidateFinal_AlwaysCoerce(v) ==
    LET r == IF HasModelDump(v) THEN ModelValidate(ModelDump(v))
             ELSE ModelValidate(v)
    IN IF r.ok THEN Returned(r.value) ELSE Raised("ValidationError", 0)

\* _parse_internal step 3: validate the final response
ValidateFinal(v) ==
    IF IsInstance(v, "Orig")
    THEN Returned(v)
    ELSE LET r == IF HasModelDump(v) THEN ModelValidate(ModelDump(v))
                  ELSE ModelValidate(v)
         IN IF r.ok THEN Returned(r.value) ELSE Raised("ValidationError", 0)

\* ---- one executor: _make_single_request --------------------------------
\* the exception an executor raises: its class and the attempt count it
\* carries (0: it carries none)
NoError == [class |-> "none", attempts |-> 0]

\* handle_openai_error(e): the error made of the provider's exception; it
\* is given the exception only
HandleOpenAIError(kind) ==
    [class |-> IF kind = "RateLimit" THEN "rate-limit-exhausted"
               ELSE "provider-error",
     attempts |-> 0]

\* mutant: the timeout error reports max_retries attempts
ClassifiedError_CountOff(kind, cfg) ==
    IF kind = "Timeout"
    THEN [class |-> "timeout-exhausted", attempts |-> cfg.max_retries]
    ELSE IF kind \in {"RateLimit", "APIError"}
    THEN HandleOpenAIError(kind)
    ELSE [class |-> "unexpected-error", attempts |-> 0]

\* the raise of each except clause (lines 101, 106-109, 114-117, 122)
ClassifiedError(kind, cfg) ==
    IF kind = "Timeout"
    THEN [class |-> "timeout-exhausted", attempts |-> cfg.max_retries + 1]
    ELSE IF kind \in {"RateLimit", "APIError"}
    THEN HandleOpenAIError(kind)
    ELSE [class |-> "unexpected-error", attempts |-> 0]

NoMessages == [kind |-> "none", responses |-> <<>>]

\* the messages the caller passed to parse
CallerMessages == [kind |-> "caller", responses |-> <<>>]

IdleExec ==
    [pc |-> "idle", model |-> "none", messages |-> NoMessages, runs |-> 0,
     fmt |-> "none", attempt |-> 0, rangeEnd |-> 0, calls |-> 0,
     naps |-> 0, sleepFor |-> 0, slept |-> 0, error |-> "none",
     raised |-> NoError,
     outcome |-> "none", value |-> Unset]

\* the task exists (asyncio.create_task) but has not run yet
Spawned(model, messages, fmt) ==
    [IdleExec EXCEPT !.pc = "ready", !.model = model, !.messages = messages,
                     !.fmt = fmt]

\* range(self.config.max_retries + 1)
RangeEnd(cfg) == cfg.max_retries + 1

\* mutant: the last attempt is taken one attempt early
IsLastAttempt_OffByOne(a, cfg) == a = cfg.max_retries - 1

\* attempt == self.config.max_retries
IsLastAttempt(a, cfg) == a = cfg.max_retries

\* mutant: linear backoff, 2 * attempt
Backoff_Linear(a) == 2 * a

\* asyncio.sleep(2 ** attempt)
Backoff(a) == 2 ^ a

\* the coroutine starts: the range is evaluated and attempt 0 is issued
Begun(e, cfg) ==
    IF RangeEnd(cfg) > 0
    THEN [e EXCEPT !.pc = "calling", !.runs = @ + 1, !.attempt = 0,
                   !.rangeEnd = RangeEnd(cfg), !.calls = @ + 1]
    ELSE [e EXCEPT !.pc = "done", !.runs = @ + 1, !.rangeEnd = RangeEnd(cfg),
                   !.outcome = "ok", !.value = NoneValue]

\* return completion.choices[0].message.parsed
Succeeded(e, v) == [e EXCEPT !.pc = "done", !.outcome = "ok", !.value = v]

\* an except clause: on the last attempt raise the error of this kind, else
\* sleep (the exception is dropped)
Failed(e, kind, cfg) ==
    IF IsLastAttempt(e.attempt, cfg)
    THEN [e EXCEPT !.pc = "done", !.outcome = "err", !.error = kind,
                   !.raised = ClassifiedError(kind, cfg)]
    ELSE [e EXCEPT !.pc = "sleeping", !.naps = @ + 1,
                   !.sleepFor = Backoff(e.attempt), !.slept = 0]

\* mutant: the retry does not advance the attempt counter
Woken_NoAdvance(e) == [e EXCEPT !.pc = "calling", !.calls = @ + 1]

\* the sleep is over: next iteration of the for loop, or the loop is
\* exhausted and the function returns None
Woken(e) ==
    IF e.attempt + 1 < e.rangeEnd
    THEN [e EXCEPT !.pc = "calling", !.attempt = @ + 1, !.calls = @ + 1]
    ELSE [e EXCEPT !.pc = "done", !.outcome = "ok", !.value = NoneValue]

\* mutant: the sleep is over only after more than its duration
SleepOver_Strict(e) == e.pc = "sleeping" /\ e.slept > e.sleepFor

\* await asyncio.sleep(d) returns once d time units have passed
SleepOver(e) == e.pc = "sleeping" /\ e.slept >= e.sleepFor

VARIABLES config, snapshot, request, stage, ex, completed, successful_results,
          failed_count, final_response, outcome

vars == <<config, snapshot, request, stage, ex, completed, successful_results,
          failed_count, final_response, outcome>>

Init ==
    /\ config \in [max_retries : 0..MaxRetries, num_processors : 1..MaxProcessors]
    /\ snapshot = config
    /\ request \in [kind : RequestKinds, pass_reasoning : BOOLEAN]
    /\ stage = "init"
    /\ ex = [i \in Executors |-> IdleExec]
    /\ completed = <<>>
    /\ successful_results = <<>>
    /\ failed_count = 0
    /\ final_response = Unset
    /\ outcome = Pending

\* ---- parse / _parse_internal: input checks, then the fan-out ------------
\* mutant: the check of the messages is missing
InputValid_NoMessagesCheck(kind) == kind \in {"ok", "no_messages"}

\* lines 259-266: model, messages and response_format are given and the
\* format is a BaseModel
InputValid(kind) == kind = "ok"

\* lines 259-266: the request is rejected before anything is spawned
StartInvalid ==
    /\ stage = "init"
    /\ ~InputValid(request.kind)
    /\ outcome' = Raised("ValidationError", 0)
    /\ stage' = "done"
    /\ UNCHANGED <<config, snapshot, request, ex, completed, successful_results,
                   failed_count, final_response>>

\* mutant: pass_reasoning is ignored
ActualFormat_Ignored(pass_reasoning) == "Orig"

\* actual_format of _process_parallel_requests
ActualFormat(pass_reasoning) ==
    IF pass_reasoning THEN _create_reasoning_format("Orig") ELSE "Orig"

\* lines 136-153: one task per processor, then await gather
StartDispatch ==
    /\ stage = "init"
    /\ InputValid(request.kind)
    /\ ex' = [i \in Executors |->
                IF i \in 1..config.num_processors
                THEN Spawned("caller_model", CallerMessages,
                             ActualFormat(request.pass_reasoning))
                ELSE ex[i]]
    /\ stage' = "gather"
    /\ UNCHANGED <<config, snapshot, request, completed, successful_results,
                   failed_count, final_response, outcome>>

\* the tasks of the invocation
Tasks == {i \in Procs : ex[i].pc # "idle"}

\* a processor's step; a task that finishes is appended to the completion order
ProcStep(i, e2) ==
    /\ ex' = [ex EXCEPT ![i] = e2]
    /\ completed' = IF e2.pc = "done" THEN Append(completed, i) ELSE completed
    /\ UNCHANGED <<config, snapshot, request, stage, successful_results, failed_count,
                   final_response, outcome>>

ProcBegin(i) ==
    /\ ex[i].pc = "ready"
    /\ ProcStep(i, Begun(ex[i], config))

ProcSucceeds(i, v) ==
    /\ ex[i].pc = "calling"
    /\ v \in ParsedValues(ex[i].fmt, i)
    /\ ProcStep(i, Succeeded(ex[i], v))

ProcFails(i, kind) ==
    /\ ex[i].pc = "calling"
    /\ ProcStep(i, Failed(ex[i], kind, config))

ProcWake(i) ==
    /\ SleepOver(ex[i])
    /\ ProcStep(i, Woken(ex[i]))

\* one time unit passes for every executor that is asleep
Tick ==
    /\ \E i \in Executors : ex[i].pc = "sleeping" /\ ex[i].slept < ex[i].sleepFor
    /\ ex' = [i \in Executors |->
                IF ex[i].pc = "sleeping" /\ ex[i].slept < ex[i].sleepFor
                THEN [ex[i] EXCEPT !.slept = @ + 1]
                ELSE ex[i]]
    /\ UNCHANGED <<config, snapshot, request, stage, completed, successful_results,
                   failed_count, final_response, outcome>>

\* ---- _process_parallel_requests after the gather ------------------------
\* mutant: the join resolves with the first task that finishes
GatherDone_FirstCompleted(tasks) == \E i \in tasks : ex[i].pc = "done"

\* asyncio.gather(*tasks, return_exceptions=True) resolves when every task
\* has finished
GatherDone(tasks) == \A i \in tasks : ex[i].pc = "done"

\* the results of gather, in the order of the tasks
GatherResults == [i \in 1..Cardinality(Tasks) |-> ex[i]]

IsException(r) == r.outcome # "ok"

\* mutant: the else is missing, every result is appended
SuccessfulResults_WithFailures(results) ==
    [k \in 1..Len(results) |-> results[k].value]

\* mutant: the successful results are collected in reverse
SuccessfulResults_Reversed(results) ==
    LET ok == SelectSeq(results, LAMBDA r : r.outcome = "ok")
    IN [k \in 1..Len(ok) |-> ok[Len(ok) + 1 - k].value]

RECURSIVE SuccessfulResults(_)
SuccessfulResults(results) ==
    IF results = <<>> THEN <<>>
    ELSE LET rest == SuccessfulResults(SubSeq(results, 1, Len(results) - 1))
             last == results[Len(results)]
         IN IF IsException(last) THEN rest ELSE Append(rest, last.value)

\* mutant: failed_count = 1 instead of failed_count += 1
FailedCount_NotAccumulated(results) ==
    IF \E k \in 1..Len(results) : results[k].outcome # "ok" THEN 1 ELSE 0

RECURSIVE FailedCount(_)
FailedCount(results) ==
    IF results = <<>> THEN 0
    ELSE FailedCount(Tail(results)) + (IF IsException(Head(results)) THEN 1 ELSE 0)

\* mutant: the batch is dropped as soon as one processor failed
BatchFailed_AnyFailure(successful, failed) == failed > 0 \/ successful = <<>>

\* mutant: the check for an empty batch is missing
BatchFailed_Never(successful, failed) == FALSE

\* line 165: if not successful_results
BatchFailed(successful, failed) == successful = <<>>

\* lines 165-166: no successful result
AggregateAllFailed ==
    /\ stage = "gather"
    /\ GatherDone(Tasks)
    /\ BatchFailed(SuccessfulResults(GatherResults), FailedCount(GatherResults))
    /\ successful_results' = <<>>
    /\ failed_count' = FailedCount(GatherResults)
    /\ outcome' = Raised("AllProcessorsFailed", FailedCount(GatherResults))
    /\ stage' = "done"
    /\ UNCHANGED <<config, snapshot, request, ex, completed, final_response>>

\* ---- _make_decision -----------------------------------------------------
\* mutant: the short-circuit tests for an empty list
ShortCircuit_Empty(responses) == Len(responses) = 0

\* line 184: if len(responses) == 1
ShortCircuit(responses) == Len(responses) = 1

\* lines 184-185 and step 3: a single response is the decision
AggregateSingle ==
    /\ stage = "gather"
    /\ GatherDone(Tasks)
    /\ ~BatchFailed(SuccessfulResults(GatherResults), FailedCount(GatherResults))
    /\ ShortCircuit(SuccessfulResults(GatherResults))
    /\ successful_results' = SuccessfulResults(GatherResults)
    /\ failed_count' = FailedCount(GatherResults)
    /\ final_response' = SuccessfulResults(GatherResults)[1]
    /\ outcome' = ValidateFinal(SuccessfulResults(GatherResults)[1])
    /\ stage' = "done"
    /\ UNCHANGED <<config, snapshot, request, ex, completed>>

\* mutant: the fallback is the last response, not the first
Fallback_Last(responses) == responses[Len(responses)]

\* lines 228-232: the fallback of the except clause
Fallback(responses) == responses[1]

\* mutant: no except clause, the decision maker's error is re-raised
MakeDecisionReturn_Reraise(e2, responses) ==
    IF e2.outcome = "ok"
    THEN [ok |-> TRUE, value |-> e2.value, error |-> "none"]
    ELSE [ok |-> FALSE, value |-> Unset, error |-> e2.error]

\* lines 225-234: what _make_decision yields once its executor e2 has ended:
\* the decision, the fallback if the call raised, DecisionMakerError if
\* there is nothing to fall back to
MakeDecisionReturn(e2, responses) ==
    IF e2.outcome = "ok"
    THEN [ok |-> TRUE, value |-> e2.value, error |-> "none"]
    ELSE IF responses # <<>>
         THEN [ok |-> TRUE, value |-> Fallback(responses), error |-> "none"]
         ELSE [ok |-> FALSE, value |-> Unset, error |-> "DecisionMakerError"]

\* lines 284-297: _parse_internal validates the decision d, or re-raises
Finish(d) ==
    /\ final_response' = IF d.ok THEN d.value ELSE final_response
    /\ outcome' = IF d.ok THEN ValidateFinal(d.value) ELSE Raised(d.error, 0)
    /\ stage' = "done"

\* a step of the decision-maker's executor; when it ends, _make_decision
\* and _parse_internal run to their end
DMStep(e2) ==
    /\ ex' = [ex EXCEPT ![DM] = e2]
    /\ IF e2.pc = "done"
       THEN Finish(MakeDecisionReturn(e2, successful_results))
       ELSE UNCHANGED <<final_response, outcome, stage>>
    /\ UNCHANGED <<config, snapshot, request, completed, successful_results, failed_count>>

\* lines 188-215: the decision maker's prompt, the original messages and
\* the responses, enumerated in their order
DecisionMessages(responses) == [kind |-> "decision", responses |-> responses]

\* mutant: the decision maker is given the format of the processors
DecisionFormat_Actual(response_format, actual_format) == actual_format

\* line 221: response_format=response_format
DecisionFormat(response_format, actual_format) == response_format

\* lines 187-223: two or more responses, the decision maker is called with
\* the original format
AggregateDecide ==
    /\ stage = "gather"
    /\ GatherDone(Tasks)
    /\ ~BatchFailed(SuccessfulResults(GatherResults), FailedCount(GatherResults))
    /\ ~ShortCircuit(SuccessfulResults(GatherResults))
    /\ successful_results' = SuccessfulResults(GatherResults)
    /\ failed_count' = FailedCount(GatherResults)
    /\ ex' = [ex EXCEPT ![DM] =
                Begun(Spawned("decision_maker_model",
                              DecisionMessages(SuccessfulResults(GatherResults)),
                              DecisionFormat("Orig", ActualFormat(request.pass_reasoning))),
                      config)]
    /\ stage' = "decide"
    /\ UNCHANGED <<config, snapshot, request, completed, final_response, outcome>>

DMSucceeds(v) ==
    /\ stage = "decide"
    /\ ex[DM].pc = "calling"
    /\ v \in ParsedValues(ex[DM].fmt, DM)
    /\ DMStep(Succeeded(ex[DM], v))

DMFails(kind) ==
    /\ stage = "decide"
    /\ ex[DM].pc = "calling"
    /\ DMStep(Failed(ex[DM], kind, config))

DMWake ==
    /\ stage = "decide"
    /\ SleepOver(ex[DM])
    /\ DMStep(Woken(ex[DM]))

Next ==
    \/ StartInvalid
    \/ StartDispatch
    \/ \E i \in Procs : ProcBegin(i)
    \/ \E i \in Procs : \E v \in ParsedValues(ex[i].fmt, i) : ProcSucceeds(i, v)
    \/ \E i \in Procs : \E kind \in ErrorKinds : ProcFails(i, kind)
    \/ \E i \in Procs : ProcWake(i)
    \/ Tick
    \/ AggregateAllFailed
    \/ AggregateSingle
    \/ AggregateDecide
    \/ \E v \in ParsedValues("Orig", DM) : DMSucceeds(v)
    \/ \E kind \in ErrorKinds : DMFails(kind)
    \/ DMWake

Spec == Init /\ [][Next]_vars

\* the event loop runs whatever can run: a pending provider call ends (it
\* returns, raises or is cut off by wait_for), a sleep ends, a coroutine that
\* can continue does
SpecFair == Init /\ [][Next]_vars /\ WF_vars(Next)

\* update_config while the invocation is in flight: the configuration the
\* executors read is given new values
UpdateConfig ==
    /\ stage \in {"gather", "decide"}
    /\ \E c \in [max_retries : 0..MaxRetries, num_processors : 1..MaxProcessors] :
          /\ c # config
          /\ config' = c
    /\ UNCHANGED <<snapshot, request, stage, ex, completed, successful_results,
                   failed_count, final_response, outcome>>

NextUpdate == Next \/ UpdateConfig

SpecUpdate == Init /\ [][NextUpdate]_vars

\* the same invocation when the configuration may also ask for no processor
\* at all: range(self.config.num_processors) is then empty
InitAnyCount ==
    /\ config \in [max_retries : 0..MaxRetries, num_processors : 0..MaxProcessors]
    /\ snapshot = config
    /\ request \in [kind : RequestKinds, pass_reasoning : BOOLEAN]
    /\ stage = "init"
    /\ ex = [i \in Executors |-> IdleExec]
    /\ completed = <<>>
    /\ successful_results = <<>>
    /\ failed_count = 0
    /\ final_response = Unset
    /\ outcome = Pending

SpecAnyCount == InitAnyCount /\ [][Next]_vars

TypeOK ==
    /\ stage \in {"init", "gather", "decide", "done"}
    /\ \A i \in Executors : ex[i].pc \in {"idle", "ready", "calling", "sleeping", "done"}
    /\ outcome.kind \in {"pending", "value", "error"}

\* ---- shorthands of the properties ---------------------------------------
ValidRequest == request.kind = "ok"

\* processors whose executor returned / raised
SucceededProcs == {i \in Procs : ex[i].pc = "done" /\ ex[i].outcome = "ok"}
FailedProcs == {i \in Procs : ex[i].pc = "done" /\ ex[i].outcome = "err"}

RECURSIVE SumCalls(_)
SumCalls(S) ==
    IF S = {} THEN 0
    ELSE LET i == CHOOSE j \in S : TRUE IN ex[i].calls + SumCalls(S \ {i})

\* C1 (as stated): once parse has ended and some processor succeeded, parse
\* has returned a value that is an instance of the caller's schema and has
\* not raised the all-processors-failed error.
C1_AsStated ==
    (stage = "done" /\ SucceededProcs # {}) =>
        /\ outcome.kind = "value"
        /\ IsInstance(outcome.value, "Orig")

\* C1 (amended): once parse has ended and some processor succeeded, parse
\* never raised the all-processors-failed error; it returned an instance of
\* the caller's schema, or, when the response the decision step chose is a
\* None parse that cannot be validated, raised ValidationError.
C1_PartialFailureTolerated ==
    (stage = "done" /\ SucceededProcs # {}) =>
        /\ outcome.error # "AllProcessorsFailed"
        /\ \/ outcome.kind = "value" /\ IsInstance(outcome.value, "Orig")
           \/ /\ outcome = Raised("ValidationError", 0)
              /\ final_response = NoneValue

C1_Witness ==
    /\ stage = "done"
    /\ SucceededProcs # {}
    /\ FailedProcs # {}
    /\ \E i \in FailedProcs : ex[i].calls = config.max_retries + 1 /\ ex[i].calls > 1
    /\ outcome.kind = "value"

\* C2: when every processor has failed after its retries, parse raises the
\* all-processors-failed error with failed count = num_processors and the
\* decision maker makes no call.
C2_AllFailed ==
    (/\ stage = "done"
     /\ ValidRequest
     /\ \A i \in 1..config.num_processors : i \in FailedProcs) =>
        /\ outcome = Raised("AllProcessorsFailed", config.num_processors)
        /\ failed_count = config.num_processors
        /\ ex[DM].pc = "idle"
        /\ ex[DM].calls = 0

C2_Witness ==
    /\ stage = "done"
    /\ config.num_processors = MaxProcessors
    /\ config.max_retries = MaxRetries
    /\ \A i \in Procs : i \in FailedProcs /\ ex[i].calls = MaxRetries + 1
    /\ outcome.error = "AllProcessorsFailed"

\* C3: with pass_reasoning, a final answer returned by parse does not carry
\* the added reasoning field.
C3_NoReasoningInFinalAnswer ==
    (stage = "done" /\ request.pass_reasoning /\ outcome.kind = "value") =>
        ~outcome.value.reasoning

\* the successful processor that completed first in time
RECURSIVE FirstSuccess(_)
FirstSuccess(order) ==
    IF order = <<>> THEN 0
    ELSE IF ex[Head(order)].outcome = "ok" THEN Head(order)
    ELSE FirstSuccess(Tail(order))

\* the successful processor that was spawned first
LowestSuccess == CHOOSE i \in SucceededProcs : \A j \in SucceededProcs : i <= j

DecisionFailed == ex[DM].pc = "done" /\ ex[DM].outcome = "err"

\* C4 (as stated): two or more processors succeeded and the decision-maker
\* call failed: that failure is not propagated and the value parse returns
\* is the value of the successful processor that completed first.
C4_AsStated ==
    (stage = "done" /\ Cardinality(SucceededProcs) >= 2 /\ DecisionFailed) =>
        /\ outcome.error \notin ErrorKinds \cup {"DecisionMakerError"}
        /\ outcome.kind = "value" =>
               outcome.value = ex[FirstSuccess(completed)].value

\* C4 (amended): two or more processors succeeded and the decision-maker
\* call failed: the failure is not propagated, the decision step yields the
\* value of the successful processor with the lowest index (gather keeps the
\* order of the tasks), whatever the completion order; parse returns that
\* very value when it is an instance of the schema and raises
\* ValidationError when it is a None parse.
C4_FallbackIsFirstSpawned ==
    (stage = "done" /\ Cardinality(SucceededProcs) >= 2 /\ DecisionFailed) =>
        /\ outcome.error \notin ErrorKinds \cup {"DecisionMakerError"}
        /\ final_response = ex[LowestSuccess].value
        /\ IsInstance(final_response, "Orig") => outcome = Returned(ex[LowestSuccess].value)
        /\ final_response = NoneValue => outcome = Raised("ValidationError", 0)

C4_Witness ==
    /\ stage = "done"
    /\ DecisionFailed
    /\ ex[DM].calls = config.max_retries + 1
    /\ completed = <<2, 1>>
    /\ SucceededProcs = {1, 2}
    /\ ex[1].value = Instance("Orig", 1)
    /\ ex[2].value = Instance("Orig", 2)
    /\ outcome = Returned(ex[1].value)

\* C5: an executor never makes more than max_retries + 1 calls; one that
\* returned made attempt + 1 calls, attempt being the index of the
\* successful attempt; one that raised made exactly max_retries + 1 calls;
\* an executor that has ended makes no further call.
C5_AttemptBound ==
    /\ [](\A i \in Executors :
            /\ ex[i].calls <= config.max_retries + 1
            /\ ex[i].pc \in {"calling", "sleeping"} => ex[i].calls = ex[i].attempt + 1
            /\ (ex[i].pc = "done" /\ ex[i].outcome = "ok") =>
                   /\ ex[i].calls = ex[i].attempt + 1
                   /\ ex[i].attempt <= config.max_retries
            /\ (ex[i].pc = "done" /\ ex[i].outcome = "err") =>
                   ex[i].calls = config.max_retries + 1)
    /\ [][\A i \in Executors :
            /\ ex[i].pc = "done" => ex'[i].calls = ex[i].calls
            /\ ex'[i].calls \in {ex[i].calls, ex[i].calls + 1}]_vars

C5_Witness ==
    \E i, j \in Executors :
        /\ config.max_retries = MaxRetries
        /\ ex[i].pc = "done" /\ ex[i].outcome = "ok" /\ ex[i].calls = 2
        /\ ex[j].pc = "done" /\ ex[j].outcome = "err"
        /\ ex[j].error = "Other" /\ ex[j].calls = MaxRetries + 1

\* C6: a failed attempt k < max_retries, of any kind, puts the executor to
\* sleep for 2^k; the failed attempt k = max_retries ends it without a
\* sleep; attempt k+1 is issued only from that sleep, after 2^k time units;
\* an executor that has ended has slept once per call but the last.
C6_Backoff ==
    /\ [](\A i \in Executors :
            /\ ex[i].pc = "calling" =>
                 \A kind \in ErrorKinds :
                    LET f == Failed(ex[i], kind, config) IN
                    IF ex[i].attempt < config.max_retries
                    THEN f.pc = "sleeping" /\ f.sleepFor = 2 ^ ex[i].attempt
                         /\ f.slept = 0 /\ f.naps = ex[i].naps + 1
                    ELSE f.pc = "done" /\ f.naps = ex[i].naps
            /\ ex[i].pc = "sleeping" => ex[i].sleepFor = 2 ^ ex[i].attempt
            /\ ex[i].pc = "done" => ex[i].naps = ex[i].calls - 1)
    /\ [][\A i \in Executors :
            /\ (ex'[i].calls > ex[i].calls /\ ex[i].calls > 0) =>
                  /\ ex[i].pc = "sleeping"
                  /\ ex[i].slept = 2 ^ ex[i].attempt
                  /\ ex'[i].attempt = ex[i].attempt + 1
            /\ (ex'[i].pc = "sleeping" /\ ex[i].pc # "sleeping") =>
                  /\ ex[i].pc = "calling"
                  /\ ex[i].attempt < config.max_retries
            /\ (ex[i].pc = "done" /\ ex[i].outcome = "ok") =>
                  ex'[i].naps = ex[i].naps]_vars

C6_Witness ==
    \E i \in Executors :
        /\ ex[i].pc = "calling"
        /\ ex[i].attempt = 2
        /\ ex[i].naps = 2
        /\ ex[i].slept = 2

\* C7: when exactly one processor succeeded, the decision maker makes no
\* provider call, the decision step yields that processor's value, and the
\* provider calls of the invocation are those of the processors.
C7_SingleShortCircuit ==
    (/\ stage \in {"gather", "decide", "done"}
     /\ GatherDone(Tasks)
     /\ Cardinality(SucceededProcs) = 1) =>
        /\ ex[DM].pc = "idle"
        /\ ex[DM].calls = 0
        /\ SumCalls(Executors) = SumCalls(Tasks)
        /\ stage # "decide"
        /\ stage = "done" =>
              \A i \in SucceededProcs : final_response = ex[i].value

C7_Witness ==
    /\ stage = "done"
    /\ config.num_processors = 2
    /\ SucceededProcs = {2}
    /\ FailedProcs = {1}
    /\ final_response = ex[2].value
    /\ outcome = Returned(ex[2].value)
    /\ SumCalls(Executors) > 2

\* C8: when the decision step's value is an instance of the caller's
\* schema, parse returns exactly that value.
C8_ValidatorIdentity ==
    (stage = "done" /\ final_response # Unset /\ IsInstance(final_response, "Orig")) =>
        outcome = Returned(final_response)

C8_Witness ==
    /\ stage = "done"
    /\ request.pass_reasoning
    /\ final_response.cls = "WithReasoning"
    /\ outcome = Returned(final_response)

\* a processor that ended did so by returning or by raising on its last try
Exhausted(i) ==
    /\ ex[i].pc = "done"
    /\ ex[i].outcome = "err"
    /\ ex[i].calls = config.max_retries + 1

Finished(i) ==
    \/ ex[i].pc = "done" /\ ex[i].outcome = "ok"
    \/ Exhausted(i)

\* C9: as long as some of the num_processors executors has not finished,
\* the dispatcher has not returned and the decision maker has not been
\* called; an executor ends only by returning or by exhausting its retries.
C9_FullBarrier ==
    /\ (stage # "init" /\ ValidRequest) => Tasks = 1..config.num_processors
    /\ \A i \in Tasks : ex[i].pc = "done" => Finished(i)
    /\ (\E i \in Tasks : ~Finished(i)) =>
          /\ stage \notin {"decide", "done"}
          /\ ex[DM].pc = "idle"
          /\ ex[DM].calls = 0
          /\ successful_results = <<>>
          /\ outcome = Pending

C9_Witness ==
    /\ stage = "gather"
    /\ config.num_processors = 2
    /\ ex[1].pc = "done" /\ ex[1].outcome = "ok"
    /\ ex[2].pc = "sleeping" /\ ex[2].attempt = 1
    /\ ex[DM].pc = "idle"

\* C10: for a valid request parse raises only the all-processors-failed
\* error, and then no processor succeeded, or ValidationError for a final
\* response that cannot be validated; never the error of a processor or of
\* the decision maker.
C10_SurfacedErrors ==
    (ValidRequest /\ outcome.kind = "error") =>
        /\ stage = "done"
        /\ outcome.error \in {"AllProcessorsFailed", "ValidationError"}
        /\ outcome.error = "AllProcessorsFailed" =>
              SucceededProcs = {} /\ ex[DM].pc = "idle"
        /\ outcome.error = "ValidationError" =>
              SucceededProcs # {} /\ ~IsInstance(final_response, "Orig")

C10_Witness ==
    /\ stage = "done"
    /\ ValidRequest
    /\ DecisionFailed
    /\ FailedProcs = {}
    /\ outcome.kind = "value"

\* C11: a request without model, without messages or without response
\* format ends in ValidationError and nothing else happens: no executor is
\* spawned, no provider call is made, no executor sleeps.
C11_InvalidInputRejected ==
    request.kind \in {"no_model", "no_messages", "no_format"} =>
        /\ stage \in {"init", "done"}
        /\ stage = "done" => outcome = Raised("ValidationError", 0)
        /\ \A i \in Executors :
              ex[i].pc = "idle" /\ ex[i].calls = 0 /\ ex[i].naps = 0
        /\ completed = <<>>

C11_Witness ==
    /\ request.kind = "no_messages"
    /\ stage = "done"
    /\ outcome = Raised("ValidationError", 0)
    /\ SumCalls(Executors) = 0

\* C12: once dispatched, the tasks are the processors 1..num_processors,
\* each started at most once with the caller's model and messages and with
\* the same format, the reasoning format exactly when pass_reasoning is set;
\* a step in which one processor makes a call or moves its attempt counter
\* leaves the counters and the position of every other executor alone.
C12_Dispatch ==
    /\ []((stage # "init" /\ ValidRequest) =>
            /\ Tasks = 1..config.num_processors
            /\ \A i \in Tasks :
                  /\ ex[i].model = "caller_model"
                  /\ ex[i].messages = CallerMessages
                  /\ ex[i].fmt = IF request.pass_reasoning THEN "WithReasoning"
                                 ELSE "Orig"
                  /\ ex[i].runs <= 1
                  /\ ex[i].pc \notin {"ready", "idle"} => ex[i].runs = 1)
    /\ [][\A i \in Procs :
            (ex'[i].calls # ex[i].calls \/ ex'[i].attempt # ex[i].attempt) =>
                \A j \in Executors \ {i} :
                    /\ ex'[j].calls = ex[j].calls
                    /\ ex'[j].attempt = ex[j].attempt
                    /\ ex'[j].pc = ex[j].pc
                    /\ ex'[j].outcome = ex[j].outcome]_vars

C12_Witness ==
    /\ request.pass_reasoning
    /\ config.num_processors = 2
    /\ ex[1].pc = "done" /\ ex[1].outcome = "err" /\ ex[1].calls = 3
    /\ ex[2].pc = "calling" /\ ex[2].attempt = 0 /\ ex[2].calls = 1
    /\ ex[1].fmt = "WithReasoning" /\ ex[2].fmt = "WithReasoning"

ClassOf(kind) ==
    IF kind = "Timeout" THEN "timeout-exhausted"
    ELSE IF kind = "RateLimit" THEN "rate-limit-exhausted"
    ELSE IF kind = "APIError" THEN "provider-error"
    ELSE "unexpected-error"

\* a timeout before the last attempt puts the executor to sleep
TimeoutIsRetried ==
    \A i \in Executors :
        (ex[i].pc = "calling" /\ ex[i].attempt < config.max_retries) =>
            LET f == Failed(ex[i], "Timeout", config) IN
            f.pc = "sleeping" /\ f.outcome = "none" /\ f.raised = NoError

\* C14 (as stated): a timeout before the last attempt is retried; an
\* executor that exhausted its retries raised the error of the class of its
\* last failure, carrying the attempt count max_retries + 1.
C14_AsStated ==
    /\ TimeoutIsRetried
    /\ \A i \in Executors :
          (ex[i].pc = "done" /\ ex[i].outcome = "err") =>
              /\ ex[i].raised.class = ClassOf(ex[i].error)
              /\ ex[i].raised.attempts = config.max_retries + 1

\* C14 (amended): a timeout before the last attempt is retried; an executor
\* that exhausted its retries raised the error of the class of its last
\* failure; the timeout error carries the attempt count max_retries + 1, the
\* errors of the three other classes carry no attempt count.
C14_ClassifiedError ==
    /\ TimeoutIsRetried
    /\ \A i \in Executors :
          (ex[i].pc = "done" /\ ex[i].outcome = "err") =>
              /\ ex[i].calls = config.max_retries + 1
              /\ ex[i].raised.class = ClassOf(ex[i].error)
              /\ ex[i].raised.attempts =
                    IF ex[i].error = "Timeout" THEN config.max_retries + 1 ELSE 0
    /\ \A i \in Executors :
          ex[i].outcome # "err" => ex[i].raised = NoError

C14_Witness ==
    /\ config.max_retries = MaxRetries
    /\ ex[1].pc = "done" /\ ex[1].outcome = "err"
    /\ ex[1].raised = [class |-> "timeout-exhausted", attempts |-> MaxRetries + 1]
    /\ ex[2].pc = "done" /\ ex[2].outcome = "err"
    /\ ex[2].raised = [class |-> "unexpected-error", attempts |-> 0]

IsSucceeded(i) == i \in SucceededProcs

\* the successful processors in the order in which they completed
ByCompletion == SelectSeq(completed, IsSucceeded)

\* the successful processors in the order in which they were spawned
BySpawn == SelectSeq([i \in 1..MaxProcessors |-> i], IsSucceeded)

Aggregated == stage \in {"decide", "done"} /\ ValidRequest /\ SucceededProcs # {}

\* C15 (as stated): the sequence of successful values handed to the
\* decision step lists the values of the successful processors in the order
\* in which they completed.
C15_AsStated ==
    Aggregated =>
        successful_results = [k \in 1..Len(ByCompletion) |-> ex[ByCompletion[k]].value]

\* C15 (amended): the sequence of successful values lists the values of the
\* successful processors in the order in which they were spawned: if i was
\* spawned before j, i's value precedes j's, whatever the completion order.
C15_SpawnOrder ==
    Aggregated =>
        /\ successful_results = [k \in 1..Len(BySpawn) |-> ex[BySpawn[k]].value]
        /\ \A k1, k2 \in 1..Len(successful_results) :
              k1 < k2 => BySpawn[k1] < BySpawn[k2]

C15_Witness ==
    /\ Aggregated
    /\ completed = <<2, 1>>
    /\ successful_results = <<Instance("Orig", 1), Instance("Orig", 2)>>

\* C16: parse never raises DecisionMakerError: the decision step is entered
\* only with a non-empty sequence of successful values, and with no
\* successful value, also with no processor at all, parse raises the
\* all-processors-failed error.
C16_DecisionMakerErrorUnreachable ==
    /\ outcome.error # "DecisionMakerError"
    /\ (stage = "decide" \/ ex[DM].pc # "idle" \/ final_response # Unset) =>
          successful_results # <<>>
    /\ (stage = "done" /\ ValidRequest /\ SucceededProcs = {}) =>
          /\ outcome = Raised("AllProcessorsFailed", config.num_processors)
          /\ ex[DM].pc = "idle"

C16_Witness ==
    /\ config.num_processors = 0
    /\ ValidRequest
    /\ stage = "done"
    /\ outcome = Raised("AllProcessorsFailed", 0)
    /\ ex[DM].pc = "idle"

\* C17: whatever update_config does while the invocation is in flight, the
\* executors go by the configuration the invocation started with
\* (snapshot): each evaluates its range from it, makes at most
\* snapshot.max_retries + 1 calls, raises only after exactly that many, and
\* ends either by a successful attempt or by that raise, never by running
\* out of its loop after a sleep.
C17_ConfigImmutable ==
    \A i \in Executors :
        /\ ex[i].calls <= snapshot.max_retries + 1
        /\ ex[i].pc \in {"calling", "sleeping", "done"} =>
              ex[i].rangeEnd = snapshot.max_retries + 1
        /\ (ex[i].pc = "done" /\ ex[i].outcome = "err") =>
              ex[i].calls = snapshot.max_retries + 1
        /\ ex[i].pc = "done" => ex[i].naps = ex[i].calls - 1

\* C18: after the aggregation every processor is counted once, as a success
\* or as a failure: the successful values and failed_count add up to
\* num_processors, failed_count is the number of processors that raised,
\* and the successful values are, one for one, the values returned by the
\* processors that succeeded.
C18_EveryProcessorCountedOnce ==
    (stage \in {"decide", "done"} /\ ValidRequest) =>
        /\ Len(successful_results) + failed_count = config.num_processors
        /\ failed_count = Cardinality(FailedProcs)
        /\ Len(successful_results) = Cardinality(SucceededProcs)
        /\ SucceededProcs \cup FailedProcs = 1..config.num_processors
        /\ Len(BySpawn) = Len(successful_results)
        /\ \A k \in 1..Len(successful_results) :
              /\ successful_results[k] = ex[BySpawn[k]].value
              /\ ex[BySpawn[k]].calls = ex[BySpawn[k]].attempt + 1
        /\ \A k1, k2 \in 1..Len(BySpawn) : k1 # k2 => BySpawn[k1] # BySpawn[k2]

C18_Witness ==
    /\ stage = "done"
    /\ config.num_processors = 2
    /\ FailedProcs = {1}
    /\ SucceededProcs = {2}
    /\ failed_count = 1
    /\ successful_results = <<Instance("Orig", 2)>>

\* C19: the provider calls of one invocation never exceed
\* (num_processors + 1) * (max_retries + 1): at most max_retries + 1 by each
\* processor and by the decision maker, whose call has used all of them,
\* with a sleep between them, when the fallback is taken.
C19_TotalCallBound ==
    /\ SumCalls(Executors) <= (config.num_processors + 1) * (config.max_retries + 1)
    /\ SumCalls(Procs) <= config.num_processors * (config.max_retries + 1)
    /\ ex[DM].calls <= config.max_retries + 1
    /\ (stage = "decide" /\ ex[DM].calls < config.max_retries + 1) =>
          final_response = Unset /\ outcome = Pending
    /\ DecisionFailed =>
          /\ ex[DM].calls = config.max_retries + 1
          /\ ex[DM].naps = config.max_retries
          /\ final_response = successful_results[1]

C19_Witness ==
    /\ stage = "done"
    /\ config.num_processors = MaxProcessors
    /\ config.max_retries = MaxRetries
    /\ DecisionFailed
    /\ SumCalls(Executors) = (MaxProcessors + 1) * (MaxRetries + 1)
    /\ outcome.kind = "value"

\* C20: under fair scheduling every invocation ends: parse returns a value
\* or raises an error.
C20_Terminates == <>(stage = "done" /\ outcome.kind \in {"value", "error"})

C20_Witness ==
    /\ stage = "done"
    /\ outcome.kind = "value"
    /\ DecisionFailed
    /\ ex[DM].naps = MaxRetries
    /\ \E i \in Procs : ex[i].pc = "done" /\ ex[i].naps = MaxRetries

====
